---- MODULE Spec2Model ----
(***************************************************************************)
(* A model of the UKAI virtual-disk core: the metadata store              *)
(* (libukai/ukai_metadata.py) with its per-block locks, persistence and    *)
(* broadcast, and the block I/O engine (ukai_data.py).                     *)
(*                                                                         *)
(* Every caller is a thread with a program counter; a call of one method   *)
(* from another is a push on the thread's stack of return labels.          *)
(*                                                                         *)
(* The replica entry of a block carries one synchronisation status.       *)
(* ukai_metadata.py stores it under 'sync_status' (0, 1, 2); ukai_data.py  *)
(* reads and writes the same entry under 'synced' (a boolean).  The model  *)
(* keeps one field: synced is TRUE exactly for UKAI_IN_SYNC, and setting   *)
(* synced to True sets UKAI_IN_SYNC.                                       *)
(***************************************************************************)
EXTENDS Integers, Sequences, FiniteSets, TLC

UKAI_IN_SYNC == 0
UKAI_SYNCING == 1
UKAI_OUT_OF_SYNC == 2

SyncStatus == {UKAI_IN_SYNC, UKAI_SYNCING, UKAI_OUT_OF_SYNC}

\* ---------------------------------------------------------------- bounds
\* number of blocks of the image (size / block_size)
NBlocks == 2
\* bytes per block
BlockSize == 2
\* calls made one after the other on a new image
MaxOps == 2
\* calls made on a loaded image
DataOps == 1
\* calls each of two concurrent callers makes
ConcOps == 1

\* storage node addresses, hypervisor addresses, the addresses of this host
Nodes == {1, 2, 3}
Hypervisors == {1, 2, 3}
LocalAddrs == {2}
Threads == {1, 2}

NoNode == 0
NoFile == <<>>
NoExc == "none"

VARIABLES
    metadata,   \* UKAIMetadata._metadata: the in-memory record
    db,         \* the record held by the persistence backend
    lock,       \* UKAIMetadata._lock: TRUE where the lock is held
    store,      \* the block files: store[node][blk] is NoFile or the bytes
    order,      \* the iteration order of a replica dictionary's keys
    th,         \* each thread's position and locals
    ops,        \* the calls each thread may still start
    servers     \* UKAIRPCConnection._servers: the idle connections per key

vars == <<metadata, db, lock, store, order, th, ops, servers>>

\* ---------------------------------------------------------------- helpers
Range(f) == {f[x] : x \in DOMAIN f}

Min(a, b) == IF a < b THEN a ELSE b

\* f with key k removed / with k bound to v
DropKey(f, k) == [x \in (DOMAIN f) \ {k} |-> f[x]]
PutKey(f, k, v) == [x \in (DOMAIN f) \cup {k} |-> IF x = k THEN v ELSE f[x]]

RECURSIVE FilterSeq(_, _)
FilterSeq(s, S) ==
    IF s = <<>> THEN <<>>
    ELSE IF Head(s) \in S THEN <<Head(s)>> \o FilterSeq(Tail(s), S)
    ELSE FilterSeq(Tail(s), S)

RECURSIVE SetToSeq(_)
SetToSeq(S) ==
    IF S = {} THEN <<>>
    ELSE LET m == CHOOSE x \in S : \A y \in S : x <= y
         IN <<m>> \o SetToSeq(S \ {m})

Perms(S) == {p \in [1..Cardinality(S) -> S] : Range(p) = S}

\* ------------------------------------------------- the metadata record
blocks == metadata.blocks
hypervisors == metadata.hypervisors
size == metadata.size
block_size == metadata.block_size

\* size / block_size, as acquire_lock, add_location, ... compute it
BlockCount == size \div block_size

\* the record ukai_metadata_create builds
ukai_metadata_create(sz, bs, location, hypervisor) ==
    [size |-> sz,
     block_size |-> bs,
     hypervisors |-> (hypervisor :> UKAI_IN_SYNC),
     blocks |-> [b \in 0..((sz \div bs) - 1) |-> (location :> UKAI_IN_SYNC)]]

\* UKAIIsLocalNode / UKAIData.is_local_node: the address is one of this host's
UKAIIsLocalNode(addr) == addr \in LocalAddrs
is_local_node(node) == node \in LocalAddrs

\* block.keys(): the nodes of a replica dictionary, in dictionary order
Keys(block) == FilterSeq(order, DOMAIN block)

get_sync_status(blk_idx, node) == blocks[blk_idx][node]

\* end_idx == -1 names the last block
EndIdx(end_idx) == IF end_idx = -1 THEN BlockCount - 1 ELSE end_idx

\* ukai_db_client.get_readers: the hypervisors of the stored record
get_readers(record) == SetToSeq(DOMAIN record.hypervisors)

\* ---------------------------------------------------------------- threads
IdleThread ==
    [pc |-> "idle", stack |-> <<>>, op |-> "none", exc |-> NoExc,
     node |-> NoNode, s |-> 0, e |-> 0, end_arg |-> 0, st |-> 0,
     ls |-> 0, le |-> 0, k |-> 0,
     blk |-> 0,
     peers |-> <<>>, held |-> {}, attempted |-> {}, failed |-> {},
     persisted |-> FALSE, skipped |-> {}, pre |-> <<>>, pst |-> <<>>,
     asked |-> {}, raw |-> <<>>, conn |-> <<>>, conn_key |-> <<>>,
     puts |-> 0,
     data |-> <<>>, off |-> 0, pieces |-> <<>>, doff |-> 0, keys |-> <<>>,
     sblk |-> 0, src |-> NoNode, sbkeys |-> <<>>, syncs |-> 0, res |-> <<>>]

Idle(t) == th[t].pc \in {"idle", "ret"}

CanStart(t) == Idle(t) /\ ops[t] > 0

Set(t, r) == th' = [th EXCEPT ![t] = r]

\* a fresh call of operation name by thread t
Begin(name) ==
    [IdleThread EXCEPT !.op = name, !.pre = blocks, !.pst = store,
                       !.stack = <<"ret">>]

\* the lock indices acquire_lock(start_idx, end_idx) takes, first and last
AcquireFirst(start_idx, end_idx) == 0
AcquireLast(start_idx, end_idx) == end_idx

\* the lock indices release_lock(start_idx, end_idx) releases, first and last
ReleaseFirstFromStart(start_idx, end_idx) == start_idx
ReleaseFirst(start_idx, end_idx) == 0
ReleaseLastShort(start_idx, end_idx) == end_idx - 1
ReleaseLast(start_idx, end_idx) == end_idx

\* the last block index of the loop range(start_idx, end_idx + 1)
LoopLastShort(start_idx, end_idx) == end_idx - 1
LoopLast(start_idx, end_idx) == end_idx

\* r entering acquire_lock(s, e), to continue at the labels of cont
EnterAcquire(r, s, e, cont) ==
    [r EXCEPT !.pc = "acquire", !.ls = s, !.le = e,
              !.k = AcquireFirst(s, e), !.stack = cont \o r.stack]

\* r entering release_lock(s, e), to continue at the labels of cont
EnterRelease(r, s, e, cont) ==
    [r EXCEPT !.pc = "release", !.ls = s, !.le = e,
              !.k = ReleaseFirst(s, e), !.stack = cont \o r.stack]

\* r entering flush() as the last statement of the method it is in
EnterFlush(r) ==
    [EnterAcquire(r, 0, EndIdx(-1), <<"fl_put">>)
        EXCEPT !.attempted = {}, !.failed = {}, !.persisted = FALSE,
               !.peers = <<>>]

\* r when its operation has returned or raised: the locals are dropped
Returned(r) ==
    [r EXCEPT !.pc = "ret", !.stack = <<>>, !.ls = 0, !.le = 0, !.k = 0,
              !.peers = <<>>,
              !.pieces = <<>>, !.doff = 0, !.keys = <<>>, !.sblk = 0,
              !.src = NoNode, !.sbkeys = <<>>]

\* r at the label on top of its stack; a raised exception unwinds to the
\* caller of the operation (no caller of release_lock or flush handles one)
Pop(r) ==
    IF r.exc # NoExc \/ Head(r.stack) = "ret"
    THEN Returned(r)
    ELSE [r EXCEPT !.pc = Head(r.stack), !.stack = Tail(r.stack)]

\* ------------------------------------------------------------ acquire_lock
\* self._lock[blk_idx].acquire(), for blk_idx ascending from 0 to end_idx;
\* an index past the end of self._lock raises IndexError, which runs the
\* finally clause (release_lock with the same arguments) of the method that
\* called acquire_lock, or goes to the caller of acquire_lock itself
AcquireLock(t) ==
    LET r == th[t] IN
    /\ r.pc = "acquire"
    /\ IF r.k \in DOMAIN lock
       THEN /\ lock[r.k] = FALSE
            /\ lock' = [lock EXCEPT ![r.k] = TRUE]
            /\ LET r1 == [r EXCEPT !.held = @ \cup {r.k}, !.k = @ + 1]
               IN Set(t, IF r.k >= AcquireLast(r.ls, r.le)
                         THEN Pop(r1) ELSE r1)
       ELSE /\ lock' = lock
            /\ LET r1 == [r EXCEPT !.exc = "IndexError"]
               IN Set(t, IF Head(r.stack) = "locked" THEN Returned(r1)
                         ELSE EnterRelease(r1, r.ls, r.le, <<>>))
    /\ UNCHANGED <<metadata, db, store, order, ops, servers>>

\* self._lock[blk_idx].release(), for blk_idx ascending; releasing a lock
\* that is not held raises thread.error, an index past the end of
\* self._lock raises IndexError
ReleaseLock(t) ==
    LET r == th[t] IN
    /\ r.pc = "release"
    /\ IF r.k \notin DOMAIN lock
       THEN /\ lock' = lock
            /\ Set(t, Returned([r EXCEPT !.exc = "IndexError"]))
       ELSE IF lock[r.k]
       THEN /\ lock' = [lock EXCEPT ![r.k] = FALSE]
            /\ LET r1 == [r EXCEPT !.held = @ \ {r.k}, !.k = @ + 1]
               IN Set(t, IF r.k >= ReleaseLast(r.ls, r.le) THEN Pop(r1) ELSE r1)
       ELSE /\ lock' = lock
            /\ Set(t, Returned([r EXCEPT !.exc = "thread.error"]))
    /\ UNCHANGED <<metadata, db, store, order, ops, servers>>

\* ------------------------------------------------------------------ flush
\* what becomes of an exception e raised inside the try of the broadcast
\* loop: "caught" when the except clause handles it, else the exception that
\* leaves flush.  The clause names xmlrpclib.Error and the module does not
\* import xmlrpclib, so matching any exception against it raises NameError.
FlushExcept(e) == "NameError"

StartFlush(t) ==
    /\ CanStart(t)
    /\ Set(t, EnterFlush(Begin("flush")))
    /\ ops' = [ops EXCEPT ![t] = @ - 1]
    /\ UNCHANGED <<metadata, db, lock, store, order, servers>>

\* r when put_metadata has raised: the exception leaves the try, on to the
\* finally clause
PutFailedIgnored(r) ==
    [r EXCEPT !.pc = "fl_bcast", !.peers = get_readers(metadata)]
PutFailed(r) ==
    EnterRelease([r EXCEPT !.exc = "PersistenceFailure"], 0, EndIdx(-1), <<>>)

\* ukai_db_client.put_metadata(self.name, self._metadata), then get_readers
FlushPut(t) ==
    LET r == th[t] IN
    /\ r.pc = "fl_put"
    /\ \/ /\ db' = metadata
          /\ Set(t, [r EXCEPT !.pc = "fl_bcast", !.persisted = TRUE,
                              !.peers = get_readers(metadata)])
       \/ /\ db' = db
          /\ Set(t, PutFailed(r))
    /\ UNCHANGED <<metadata, lock, store, order, ops, servers>>

\* one iteration of the loop over the readers
FlushBroadcast(t) ==
    LET r == th[t] IN
    /\ r.pc = "fl_bcast"
    /\ IF r.peers = <<>>
       THEN /\ Set(t, EnterRelease(r, 0, EndIdx(-1), <<>>))
            /\ UNCHANGED metadata
       ELSE LET hv == Head(r.peers)
                rest == [r EXCEPT !.peers = Tail(r.peers)]
                raise(e) == EnterRelease([rest EXCEPT !.exc = e, !.peers = <<>>],
                                         0, EndIdx(-1), <<>>)
            IN
            IF UKAIIsLocalNode(hv)
            THEN Set(t, rest) /\ UNCHANGED metadata
            ELSE IF hv \notin DOMAIN hypervisors
            THEN \* self.hypervisors[hv] raises KeyError
                 /\ Set(t, IF FlushExcept("KeyError") = "caught"
                           THEN rest ELSE raise(FlushExcept("KeyError")))
                 /\ UNCHANGED metadata
            ELSE \E rpc \in {"ok", "IOError", "xmlrpclib.Fault"} :
                 LET tried == [rest EXCEPT !.attempted = @ \cup {hv}]
                     failed == [tried EXCEPT !.failed = @ \cup {hv}]
                 IN
                 IF rpc = "ok"
                 THEN /\ metadata' = [metadata EXCEPT
                                        !.hypervisors[hv] = UKAI_IN_SYNC]
                      /\ Set(t, tried)
                 ELSE IF FlushExcept(rpc) = "caught"
                 THEN /\ metadata' = [metadata EXCEPT
                                        !.hypervisors[hv] = UKAI_OUT_OF_SYNC]
                      /\ Set(t, failed)
                 ELSE /\ metadata' = [metadata EXCEPT
                                        !.hypervisors[hv] = UKAI_IN_SYNC]
                      /\ Set(t, [raise(FlushExcept(rpc)) EXCEPT
                                    !.attempted = failed.attempted,
                                    !.failed = failed.failed])
    /\ UNCHANGED <<db, lock, store, order, ops, servers>>

\* ----------------------------------------------------------- add_location
StartAddLocation(t, node, start_idx, end_idx, sync_status) ==
    /\ CanStart(t)
    /\ start_idx >= 0
    /\ EndIdx(end_idx) >= start_idx
    /\ EndIdx(end_idx) < BlockCount
    /\ Set(t, EnterAcquire([Begin("add_location") EXCEPT
                               !.node = node, !.st = sync_status,
                               !.s = start_idx, !.e = EndIdx(end_idx),
                               !.blk = start_idx, !.end_arg = end_idx],
                           start_idx, EndIdx(end_idx), <<"al_loop">>))
    /\ ops' = [ops EXCEPT ![t] = @ - 1]
    /\ UNCHANGED <<metadata, db, lock, store, order, servers>>

\* the entry of block blk_idx after the body of add_location's loop
AddLocationEntryOverwrite(block, node, sync_status) ==
    PutKey(block, node, sync_status)
AddLocationEntry(block, node, sync_status) ==
    IF node \notin DOMAIN block THEN PutKey(block, node, sync_status)
    ELSE block

\* one iteration of add_location's loop; after the last one, the finally
\* clause releases the range and flush follows
AddLocationLoop(t) ==
    LET r == th[t] IN
    /\ r.pc = "al_loop"
    /\ metadata' = [metadata EXCEPT !.blocks[r.blk] =
                        AddLocationEntry(@, r.node, r.st)]
    /\ Set(t, IF r.blk >= LoopLast(r.s, r.e)
              THEN EnterRelease(r, r.s, r.e, <<"call_flush">>)
              ELSE [r EXCEPT !.blk = @ + 1])
    /\ UNCHANGED <<db, lock, store, order, ops, servers>>

\* self.flush() as the last statement of a method
CallFlush(t) ==
    LET r == th[t] IN
    /\ r.pc = "call_flush"
    /\ Set(t, EnterFlush(r))
    /\ UNCHANGED <<metadata, db, lock, store, order, ops, servers>>

\* -------------------------------------------------------- remove_location
StartRemoveLocation(t, node, start_idx, end_idx) ==
    /\ CanStart(t)
    /\ start_idx >= 0
    /\ EndIdx(end_idx) >= start_idx
    /\ EndIdx(end_idx) < BlockCount
    /\ Set(t, EnterAcquire([Begin("remove_location") EXCEPT
                               !.node = node, !.blk = start_idx,
                               !.s = start_idx, !.e = EndIdx(end_idx),
                               !.end_arg = end_idx],
                           start_idx, EndIdx(end_idx), <<"rl_loop">>))
    /\ ops' = [ops EXCEPT ![t] = @ - 1]
    /\ UNCHANGED <<metadata, db, lock, store, order, servers>>

\* has_synced_node: some member other than node is UKAI_IN_SYNC
HasSyncedNodeAny(block, node) ==
    \E member_node \in DOMAIN block : block[member_node] = UKAI_IN_SYNC
HasSyncedNode(block, node) ==
    \E member_node \in DOMAIN block :
        /\ member_node # node
        /\ block[member_node] = UKAI_IN_SYNC

\* the entry of a block after the body of remove_location's loop
RemoveLocationEntryNoGuard(block, node) ==
    IF node \in DOMAIN block THEN DropKey(block, node) ELSE block
RemoveLocationEntry(block, node) ==
    IF ~HasSyncedNode(block, node) THEN block
    ELSE IF node \in DOMAIN block THEN DropKey(block, node)
    ELSE block

RemoveLocationLoop(t) ==
    LET r == th[t] IN
    /\ r.pc = "rl_loop"
    /\ metadata' = [metadata EXCEPT !.blocks[r.blk] =
                        RemoveLocationEntry(@, r.node)]
    /\ LET r1 == IF HasSyncedNode(blocks[r.blk], r.node) THEN r
                 ELSE [r EXCEPT !.skipped = @ \cup {r.blk}]
       IN Set(t, IF r.blk >= LoopLast(r.s, r.e)
                 THEN EnterRelease(r1, r.s, r.e, <<"call_flush">>)
                 ELSE [r1 EXCEPT !.blk = @ + 1])
    /\ UNCHANGED <<db, lock, store, order, ops, servers>>

\* ------------------------------------------ add_hypervisor, remove_hypervisor
AddHypervisor(t, hypervisor) ==
    /\ CanStart(t)
    /\ metadata' = [metadata EXCEPT !.hypervisors =
                      IF hypervisor \notin DOMAIN @
                      THEN PutKey(@, hypervisor, UKAI_OUT_OF_SYNC) ELSE @]
    /\ Set(t, EnterFlush([Begin("add_hypervisor") EXCEPT !.node = hypervisor]))
    /\ ops' = [ops EXCEPT ![t] = @ - 1]
    /\ UNCHANGED <<db, lock, store, order, servers>>

RemoveHypervisor(t, hypervisor) ==
    /\ CanStart(t)
    /\ metadata' = [metadata EXCEPT !.hypervisors =
                      IF hypervisor \in DOMAIN @
                      THEN DropKey(@, hypervisor) ELSE @]
    /\ Set(t, EnterFlush([Begin("remove_hypervisor") EXCEPT
                             !.node = hypervisor]))
    /\ ops' = [ops EXCEPT ![t] = @ - 1]
    /\ UNCHANGED <<db, lock, store, order, servers>>

\* ---------------------------------------------------------- set_sync_status
\* self.blocks[blk_idx][node]['sync_status'] = sync_status; an absent node
\* raises KeyError
SetSyncStatus(t, blk_idx, node, sync_status) ==
    /\ CanStart(t)
    /\ blk_idx \in DOMAIN blocks
    /\ IF node \in DOMAIN blocks[blk_idx]
       THEN /\ metadata' = [metadata EXCEPT
                               !.blocks[blk_idx][node] = sync_status]
            /\ Set(t, Returned([Begin("set_sync_status") EXCEPT
                          !.node = node, !.blk = blk_idx,
                          !.st = sync_status]))
       ELSE /\ metadata' = metadata
            /\ Set(t, Returned([Begin("set_sync_status") EXCEPT
                          !.node = node, !.blk = blk_idx,
                          !.st = sync_status, !.exc = "KeyError"]))
    /\ ops' = [ops EXCEPT ![t] = @ - 1]
    /\ UNCHANGED <<db, lock, store, order, servers>>

\* ------------------------------------- a caller's acquire_lock / release_lock
\* acquire_lock(start_idx, end_idx) followed by release_lock(start_idx, end_idx)
StartAcquire(t, start_idx, end_idx) ==
    /\ CanStart(t)
    /\ start_idx >= 0
    /\ EndIdx(end_idx) >= start_idx
    /\ EndIdx(end_idx) < BlockCount
    /\ Set(t, EnterAcquire([Begin("acquire") EXCEPT
                               !.s = start_idx, !.e = EndIdx(end_idx),
                               !.end_arg = end_idx],
                           start_idx, EndIdx(end_idx), <<"locked">>))
    /\ ops' = [ops EXCEPT ![t] = @ - 1]
    /\ UNCHANGED <<metadata, db, lock, store, order, servers>>

CallRelease(t) ==
    LET r == th[t] IN
    /\ r.pc = "locked"
    /\ Set(t, EnterRelease(r, r.s, r.e, <<>>))
    /\ UNCHANGED <<metadata, db, lock, store, order, ops, servers>>

\* ------------------------------------------------- the metadata setter
\* metadata.setter on an instance that has a record: acquire_lock() on the
\* record in place, the assignment, release_lock() on the new record
StartSetMetadata(t, metadata_raw) ==
    /\ CanStart(t)
    /\ Set(t, EnterAcquire([Begin("metadata") EXCEPT !.raw = metadata_raw],
                           0, EndIdx(-1), <<"set_assign">>))
    /\ ops' = [ops EXCEPT ![t] = @ - 1]
    /\ UNCHANGED <<metadata, db, lock, store, order, servers>>

\* self._metadata = metadata_raw, then finally: self.release_lock()
SetAssign(t) ==
    LET r == th[t] IN
    /\ r.pc = "set_assign"
    /\ metadata' = r.raw
    /\ Set(t, EnterRelease(r, 0, (r.raw.size \div r.raw.block_size) - 1,
                           <<>>))
    /\ UNCHANGED <<db, lock, store, order, ops, servers>>

\* ------------------------------------------------------------ UKAIData
\* block[node]['synced'], the data engine's reading of a replica's status
SyncedAlways(block, node) == TRUE
Synced(block, node) == block[node] = UKAI_IN_SYNC

\* the bytes a caller writes: i-th byte i of a string that differs from
\* call to call and from thread to thread
Data(t, len) == [i \in 1..len |-> 100 * t + 10 * ops[t] + i]

\* end_block = (offset + size - 1) / self.metadata.block_size
EndBlockOffByOne(offset, sz) == (offset + sz) \div block_size
EndBlock(offset, sz) == (offset + sz - 1) \div block_size

\* pieces are <<block #, start position, length>>
GatherFirstPiece(offset, sz) ==
    << <<offset \div block_size, offset % block_size,
         Min(sz, block_size - (offset % block_size))>> >>
gather_pieces(offset, sz) ==
    LET start_block == offset \div block_size
        end_block == EndBlock(offset, sz)
        start_block_pos == offset - (start_block * block_size)
        end_block_pos == (offset + sz) - (end_block * block_size)
    IN IF start_block = end_block
       THEN << <<start_block, start_block_pos, sz>> >>
       ELSE [i \in 1..(end_block - start_block + 1) |->
               LET block == start_block + i - 1 IN
               IF block = start_block
               THEN <<block, start_block_pos, block_size - start_block_pos>>
               ELSE IF block = end_block
               THEN <<block, 0, end_block_pos>>
               ELSE <<block, 0, block_size>>]

\* a call of gather_pieces(offset, size) on its own
GatherPieces(t, offset, sz) ==
    /\ CanStart(t)
    /\ sz > 0 /\ offset >= 0 /\ sz + offset <= size
    /\ Set(t, Returned([Begin("gather_pieces") EXCEPT
                           !.off = offset, !.e = sz,
                           !.res = gather_pieces(offset, sz)]))
    /\ ops' = [ops EXCEPT ![t] = @ - 1]
    /\ UNCHANGED <<metadata, db, lock, store, order, servers>>

\* the scan that read and synchronize_block run over block.keys(): a replica
\* that is not synced is skipped, a local one ends the scan, a remote one is
\* kept until a later one replaces it; NoNode stands for None
RECURSIVE ScanNoBreak(_, _, _)
ScanNoBreak(block, keys, candidate) ==
    IF keys = <<>> THEN candidate
    ELSE ScanNoBreak(block, Tail(keys),
                     IF block[Head(keys)] = UKAI_IN_SYNC
                     THEN Head(keys) ELSE candidate)
RECURSIVE ScanCandidate(_, _, _)
ScanCandidate(block, keys, candidate) ==
    IF keys = <<>> THEN candidate
    ELSE LET node == Head(keys) IN
         IF ~Synced(block, node) THEN ScanCandidate(block, Tail(keys), candidate)
         ELSE IF is_local_node(node) THEN node
         ELSE ScanCandidate(block, Tail(keys), node)

SourceCandidate(block) == ScanCandidate(block, Keys(block), NoNode)

\* get_data(node, num, offset, size) when the transport works: the bytes, or
\* "IOError" when node is None (no such host) or the block file is missing
get_data(node, num, offset, sz) ==
    IF node = NoNode THEN "IOError"
    ELSE IF store[node][num] = NoFile THEN "IOError"
    ELSE SubSeq(store[node][num], offset + 1, offset + sz)

\* the block file after put_data(node, num, offset, data) succeeded
PutBytes(file, offset, data) ==
    [i \in 1..Len(file) |->
        IF i > offset /\ i <= offset + Len(data) THEN data[i - offset]
        ELSE file[i]]

\* put_data can succeed only on an existing block file (open(path, 'r+'))
CanPut(node, num) == store[node][num] # NoFile

\* UKAIData.read(size, offset) when the transport works: <<"ok", bytes>> or
\* <<exception>>
RECURSIVE ReadPieces(_, _)
ReadPieces(pieces, data) ==
    IF pieces = <<>> THEN <<"ok", data>>
    ELSE LET piece == Head(pieces)
             blk_num == piece[1]
             candidate == SourceCandidate(blocks[blk_num])
             got == get_data(candidate, blk_num, piece[2], piece[3])
         IN IF got = "IOError" THEN <<"IOError">>
            ELSE ReadPieces(Tail(pieces), data \o got)

read(sz, offset) == ReadPieces(gather_pieces(offset, sz), <<>>)

\* the nodes read calls get_data with: the candidate of each piece up to
\* and including the first one whose get_data raises
RECURSIVE ReadAsked(_)
ReadAsked(pieces) ==
    IF pieces = <<>> THEN {}
    ELSE LET piece == Head(pieces)
             candidate == SourceCandidate(blocks[piece[1]])
         IN IF get_data(candidate, piece[1], piece[2], piece[3]) = "IOError"
            THEN {candidate}
            ELSE {candidate} \cup ReadAsked(Tail(pieces))

Read(t, sz, offset) ==
    /\ CanStart(t)
    /\ sz > 0 /\ offset >= 0 /\ offset + sz <= size
    /\ \E transport \in {"ok", "IOError"} :
         LET got == IF transport = "ok" THEN read(sz, offset) ELSE <<"IOError">>
         IN Set(t, Returned([Begin("read") EXCEPT
                   !.off = offset, !.e = sz,
                   !.asked = ReadAsked(gather_pieces(offset, sz)),
                   !.exc = IF got[1] = "ok" THEN NoExc ELSE got[1],
                   !.res = IF got[1] = "ok" THEN got[2] ELSE <<>>]))
    /\ ops' = [ops EXCEPT ![t] = @ - 1]
    /\ UNCHANGED <<metadata, db, lock, store, order, servers>>

\* ------------------------------------------------------------------ write
\* r at the head of write's loop over pieces[1]'s block.keys(), or returning
\* len(data) when no piece is left
WritePiece(r) ==
    IF r.pieces = <<>>
    THEN Returned([r EXCEPT !.res = <<Len(r.data)>>])
    ELSE [r EXCEPT !.pc = "w_node", !.keys = Keys(blocks[r.pieces[1][1]])]

StartWrite(t, offset, len) ==
    /\ CanStart(t)
    /\ len > 0 /\ offset >= 0 /\ offset + len <= size
    /\ Set(t, WritePiece([Begin("write") EXCEPT
                            !.data = Data(t, len), !.off = offset,
                            !.pieces = gather_pieces(offset, len)]))
    /\ ops' = [ops EXCEPT ![t] = @ - 1]
    /\ UNCHANGED <<metadata, db, lock, store, order, servers>>

\* r after the put to the node at the head of r.keys: the next node, or the
\* next piece with the data cursor advanced
WriteAdvance(r) ==
    IF Tail(r.keys) # <<>>
    THEN [r EXCEPT !.pc = "w_node", !.keys = Tail(r.keys)]
    ELSE WritePiece([r EXCEPT !.doff = @ + r.pieces[1][3],
                              !.pieces = Tail(r.pieces), !.keys = <<>>,
                              !.puts = 0])

\* data[data_offset:data_offset + size_in_blk]
WriteSliceNoCursor(data, data_offset, size_in_blk) ==
    SubSeq(data, 1, size_in_blk)
WriteSlice(data, data_offset, size_in_blk) ==
    SubSeq(data, data_offset + 1, data_offset + size_in_blk)

\* put_data(node, blk_num, off_in_blk, data[data_offset:data_offset + size_in_blk])
WritePutData(t, r) ==
    LET piece == r.pieces[1]
        node == Head(r.keys)
        slice == WriteSlice(r.data, r.doff, piece[3])
    IN
    \/ /\ CanPut(node, piece[1])
       /\ store' = [store EXCEPT ![node][piece[1]] = PutBytes(@, piece[2], slice)]
       /\ Set(t, WriteAdvance([r EXCEPT !.puts = @ + 1]))
    \/ /\ ~is_local_node(node) \/ ~CanPut(node, piece[1])
       /\ store' = store
       /\ Set(t, Returned([r EXCEPT !.exc = "IOError"]))

\* the body of the loop over block.keys(), up to the call of
\* synchronize_block or, for a synced node, through put_data
WriteNode(t) ==
    LET r == th[t]
        blk_num == r.pieces[1][1]
        node == Head(r.keys)
    IN
    /\ r.pc = "w_node"
    /\ IF node \notin DOMAIN blocks[blk_num]
       THEN /\ Set(t, Returned([r EXCEPT !.exc = "KeyError"]))
            /\ store' = store
       ELSE IF ~Synced(blocks[blk_num], node)
       THEN /\ Set(t, [r EXCEPT !.pc = "sb_start", !.sblk = blk_num,
                                !.syncs = @ + 1,
                                !.stack = <<"w_put">> \o r.stack])
            /\ store' = store
       ELSE WritePutData(t, r)
    /\ UNCHANGED <<metadata, db, lock, order, ops, servers>>

\* put_data after synchronize_block has returned
WritePut(t) ==
    /\ th[t].pc = "w_put"
    /\ WritePutData(t, th[t])
    /\ UNCHANGED <<metadata, db, lock, order, ops, servers>>

\* ------------------------------------------------------ synchronize_block
StartSynchronizeBlock(t, block_num) ==
    /\ CanStart(t)
    /\ block_num \in DOMAIN blocks
    /\ Set(t, [Begin("synchronize_block") EXCEPT
                  !.pc = "sb_start", !.sblk = block_num, !.blk = block_num])
    /\ ops' = [ops EXCEPT ![t] = @ - 1]
    /\ UNCHANGED <<metadata, db, lock, store, order, servers>>

\* the choice of source_candidate ('Disk broken' is printed for None and
\* the method goes on)
SyncSelect(t) ==
    LET r == th[t] IN
    /\ r.pc = "sb_start"
    /\ Set(t, [r EXCEPT !.pc = "sb_node",
                        !.src = SourceCandidate(blocks[r.sblk]),
                        !.sbkeys = Keys(blocks[r.sblk])])
    /\ UNCHANGED <<metadata, db, lock, store, order, ops, servers>>

\* node is a target of the copy: it is not synced and is not the source
SyncTargetNone(block, node, source_candidate) == FALSE
SyncTarget(block, node, source_candidate) ==
    ~Synced(block, node) /\ node # source_candidate

\* one iteration of the loop over the replicas; past the last one, flush
SyncNode(t) ==
    LET r == th[t]
        b == r.sblk
        node == Head(r.sbkeys)
        next == [r EXCEPT !.sbkeys = Tail(r.sbkeys)]
        raise(e) == Returned([r EXCEPT !.exc = e])
        zeros == [i \in 1..block_size |-> 0]
        got == get_data(r.src, b, 0, block_size)
    IN
    /\ r.pc = "sb_node"
    /\ IF r.sbkeys = <<>>
       THEN Set(t, EnterFlush(r)) /\ UNCHANGED <<metadata, store>>
       ELSE IF node \notin DOMAIN blocks[b]
       THEN Set(t, raise("KeyError")) /\ UNCHANGED <<metadata, store>>
       ELSE IF ~SyncTarget(blocks[b], node, r.src)
       THEN Set(t, next) /\ UNCHANGED <<metadata, store>>
       ELSE \* allocate_dataspace, get_data from the source, put_data, mark
            \/ /\ ~is_local_node(node)
               /\ Set(t, raise("IOError"))
               /\ UNCHANGED <<metadata, store>>
            \/ /\ got = "IOError" \/ ~is_local_node(r.src) \/ ~is_local_node(node)
               /\ store' = [store EXCEPT ![node][b] = zeros]
               /\ Set(t, raise("IOError"))
               /\ UNCHANGED metadata
            \/ /\ got # "IOError"
               /\ store' = [store EXCEPT ![node][b] = PutBytes(zeros, 0, got)]
               /\ metadata' = [metadata EXCEPT !.blocks[b][node] = UKAI_IN_SYNC]
               /\ Set(t, next)
    /\ UNCHANGED <<db, lock, order, ops, servers>>

\* --------------------------------------------------------------- the model
create_location == 1
create_hypervisor == 2

ZeroBlock == [i \in 1..BlockSize |-> 0]
StaleBlock == [i \in 1..BlockSize |-> 9]

\* the calls a thread may start on the metadata store
MetaStart(t) ==
    \/ StartFlush(t)
    \/ \E n \in Nodes, s \in 0..(NBlocks - 1), e \in -1..(NBlocks - 1),
          st \in SyncStatus : StartAddLocation(t, n, s, e, st)
    \/ \E n \in Nodes, s \in 0..(NBlocks - 1), e \in -1..(NBlocks - 1) :
          StartRemoveLocation(t, n, s, e)
    \/ \E hv \in Hypervisors : AddHypervisor(t, hv)
    \/ \E hv \in Hypervisors : RemoveHypervisor(t, hv)
    \/ \E b \in 0..(NBlocks - 1), n \in Nodes, st \in SyncStatus :
          SetSyncStatus(t, b, n, st)
    \/ \E s \in 0..(NBlocks - 1), e \in -1..(NBlocks - 1) : StartAcquire(t, s, e)

\* the calls a thread may start on the block I/O engine
DataStart(t) ==
    \/ \E sz \in 1..(NBlocks * BlockSize), off \in 0..(NBlocks * BlockSize - 1) :
          Read(t, sz, off)
    \/ \E off \in 0..(NBlocks * BlockSize - 1), len \in 1..(NBlocks * BlockSize) :
          StartWrite(t, off, len)
    \/ \E b \in 0..(NBlocks - 1) : StartSynchronizeBlock(t, b)

\* the steps inside flush, acquire_lock and release_lock
FlushStep(t) ==
    \/ AcquireLock(t)
    \/ ReleaseLock(t)
    \/ FlushPut(t)
    \/ FlushBroadcast(t)

\* the steps inside the other metadata calls
MetaStep(t) ==
    \/ AddLocationLoop(t)
    \/ RemoveLocationLoop(t)
    \/ CallFlush(t)
    \/ CallRelease(t)

\* the steps inside write and synchronize_block
DataStep(t) ==
    \/ WriteNode(t)
    \/ WritePut(t)
    \/ SyncSelect(t)
    \/ SyncNode(t)

\* One caller, MaxOps calls one after the other on an image that
\* ukai_metadata_create has just made.
Init ==
    /\ metadata = ukai_metadata_create(NBlocks * BlockSize, BlockSize,
                                       create_location, create_hypervisor)
    /\ db = metadata
    /\ lock = [i \in 0..(NBlocks - 1) |-> FALSE]
    /\ store = [n \in Nodes |-> [b \in 0..(NBlocks - 1) |->
                  IF n = create_location THEN ZeroBlock ELSE NoFile]]
    /\ order = SetToSeq(Nodes)
    /\ th = [t \in Threads |-> IdleThread]
    /\ ops = [t \in Threads |-> IF t = 1 THEN MaxOps ELSE 0]
    /\ servers = <<>>

Next ==
    \E t \in Threads :
        MetaStart(t) \/ DataStart(t) \/ FlushStep(t) \/ MetaStep(t) \/ DataStep(t)

Spec == Init /\ [][Next]_vars

\* One caller, one call of the block I/O engine on an image loaded from the
\* persistence backend (UKAIMetadata.__init__ with metadata_raw = None): the
\* first block has any replica map, the others share it or have the map of a
\* new image.  An IN_SYNC replica holds the block, a SYNCING one a stale
\* copy, an OUT_OF_SYNC one no block file yet.
BlockMaps == UNION {[S -> SyncStatus] : S \in (SUBSET Nodes) \ {{}}}

LoadedFile(block, n) ==
    IF n \notin DOMAIN block THEN NoFile
    ELSE IF block[n] = UKAI_IN_SYNC THEN ZeroBlock
    ELSE IF block[n] = UKAI_SYNCING THEN StaleBlock
    ELSE NoFile

InitData ==
    /\ \E m0 \in BlockMaps, m1 \in BlockMaps :
          /\ m1 \in {m0, create_location :> UKAI_IN_SYNC}
          /\ metadata = [size |-> NBlocks * BlockSize,
                         block_size |-> BlockSize,
                         hypervisors |-> (create_hypervisor :> UKAI_IN_SYNC),
                         blocks |-> [b \in 0..(NBlocks - 1) |->
                                       IF b = 0 THEN m0 ELSE m1]]
    /\ db = metadata
    /\ lock = [i \in 0..(NBlocks - 1) |-> FALSE]
    /\ store = [n \in Nodes |-> [b \in 0..(NBlocks - 1) |->
                  LoadedFile(metadata.blocks[b], n)]]
    /\ order \in Perms(Nodes)
    /\ th = [t \in Threads |-> IdleThread]
    /\ ops = [t \in Threads |-> IF t = 1 THEN DataOps ELSE 0]
    /\ servers = <<>>

NextData == \E t \in Threads : DataStart(t) \/ FlushStep(t) \/ DataStep(t)

SpecData == InitData /\ [][NextData]_vars

\* Two callers, each making ConcOps calls, on a loaded image every block of
\* which has an IN_SYNC replica on node 1 and an OUT_OF_SYNC one on the
\* local node 2; node 3 may be added.
ConcNodes == {1, 2}
ConcNewNode == 3
ConcStatus == {UKAI_IN_SYNC, UKAI_OUT_OF_SYNC}
ConcHypervisor == 3

InitConc ==
    /\ metadata = [size |-> NBlocks * BlockSize,
                   block_size |-> BlockSize,
                   hypervisors |-> (create_hypervisor :> UKAI_IN_SYNC),
                   blocks |-> [b \in 0..(NBlocks - 1) |->
                       (1 :> UKAI_IN_SYNC) @@ (2 :> UKAI_OUT_OF_SYNC)]]
    /\ db = metadata
    /\ lock = [i \in 0..(NBlocks - 1) |-> FALSE]
    /\ store = [n \in Nodes |-> [b \in 0..(NBlocks - 1) |->
                  LoadedFile(metadata.blocks[b], n)]]
    /\ order = SetToSeq(Nodes)
    /\ th = [t \in Threads |-> IdleThread]
    /\ ops = [t \in Threads |-> ConcOps]
    /\ servers = <<>>

ConcStart(t) ==
    \/ StartFlush(t)
    \/ \E s \in 0..(NBlocks - 1), st \in ConcStatus :
          \E e \in s..(NBlocks - 1) : StartAddLocation(t, ConcNewNode, s, e, st)
    \/ \E n \in ConcNodes, s \in 0..(NBlocks - 1) :
          \E e \in s..(NBlocks - 1) : StartRemoveLocation(t, n, s, e)
    \/ AddHypervisor(t, ConcHypervisor)
    \/ RemoveHypervisor(t, ConcHypervisor)
    \/ \E b \in 0..(NBlocks - 1), n \in ConcNodes, st \in ConcStatus :
          SetSyncStatus(t, b, n, st)
    \/ \E s \in 0..(NBlocks - 1) :
          \E e \in s..(NBlocks - 1) : StartAcquire(t, s, e)
    \/ \E off \in 0..(BlockSize - 1), len \in 1..BlockSize :
          StartWrite(t, off, len)
    \/ \E b \in 0..(NBlocks - 1) : StartSynchronizeBlock(t, b)

NextConc ==
    \E t \in Threads :
        ConcStart(t) \/ FlushStep(t) \/ MetaStep(t) \/ DataStep(t)

SpecConc == InitConc /\ [][NextConc]_vars

\* The calls that take block locks, two threads at once: one call each of
\* flush, add_location, remove_location, acquire_lock/release_lock, write
\* and synchronize_block.
LockStart(t) ==
    \/ StartFlush(t)
    \/ \E s \in 0..(NBlocks - 1) :
          \E e \in s..(NBlocks - 1) :
              StartAddLocation(t, ConcNewNode, s, e, UKAI_OUT_OF_SYNC)
    \/ \E s \in 0..(NBlocks - 1) :
          \E e \in s..(NBlocks - 1) : StartRemoveLocation(t, 2, s, e)
    \/ \E s \in 0..(NBlocks - 1) :
          \E e \in s..(NBlocks - 1) : StartAcquire(t, s, e)
    \/ \E len \in 1..BlockSize : StartWrite(t, 0, len)
    \/ \E b \in 0..(NBlocks - 1) : StartSynchronizeBlock(t, b)

NextLock ==
    \E t \in Threads :
        LockStart(t) \/ FlushStep(t) \/ MetaStep(t) \/ DataStep(t)

SpecLock == InitConc /\ [][NextLock]_vars

\* SpecLock under fair scheduling: a thread that can take a step of the call
\* it is in eventually takes one (every RPC and file I/O returns)
FairLock ==
    SpecLock /\ \A t \in Threads :
        WF_vars(FlushStep(t) \/ MetaStep(t) \/ DataStep(t))

\* ----------------------------------------------------------------- claims
\* thread t has finished a call of operation name / finished it normally
Finished(t, name) == th[t].pc = "ret" /\ th[t].op = name
Returns(t, name) == Finished(t, name) /\ th[t].exc = NoExc

\* the block indices a write or read of len bytes at offset touches
Touched(offset, len) ==
    (offset \div BlockSize)..((offset + len - 1) \div BlockSize)

\* the block range [s, e] a finished add_location or remove_location named
ArgRange(t) ==
    th[t].s..(IF th[t].end_arg = -1 THEN NBlocks - 1 ELSE th[t].end_arg)

\* C1: when write(data, offset) has returned normally, read(len(data),
\* offset) on the state it leaves returns exactly data
C1_WriteThenRead ==
    \A t \in Threads :
        Returns(t, "write") =>
            read(Len(th[t].data), th[t].off) = <<"ok", th[t].data>>

\* a write across a block boundary has returned, and a block it touched had
\* an IN_SYNC and an OUT_OF_SYNC replica before
C1_Witness ==
    \E t \in Threads :
        /\ Returns(t, "write")
        /\ Cardinality(Touched(th[t].off, Len(th[t].data))) > 1
        /\ \E b \in Touched(th[t].off, Len(th[t].data)) :
              \E n1, n2 \in DOMAIN th[t].pre[b] :
                  /\ th[t].pre[b][n1] = UKAI_IN_SYNC
                  /\ th[t].pre[b][n2] = UKAI_OUT_OF_SYNC

\* C2: remove_location(node, s, e) has deleted node from a block only if a
\* replica left in the block is IN_SYNC; a block where no other replica was
\* IN_SYNC is exactly as it was; and the call raises nothing unless the
\* flush that ends it does (the skip is not an error)
C2_RemoveOnlyIfSynced ==
    \A t \in Threads :
        Finished(t, "remove_location") =>
            /\ \A i \in DOMAIN blocks :
                  /\ (th[t].node \in DOMAIN th[t].pre[i]
                        /\ th[t].node \notin DOMAIN blocks[i])
                     => \E n \in DOMAIN blocks[i] : blocks[i][n] = UKAI_IN_SYNC
                  /\ (~\E n \in DOMAIN th[t].pre[i] \ {th[t].node} :
                         th[t].pre[i][n] = UKAI_IN_SYNC)
                     => blocks[i] = th[t].pre[i]
            /\ (th[t].persisted /\ th[t].exc # "NameError")
                  => th[t].exc = NoExc

\* remove_location has returned normally after deleting the node from one
\* block and skipping another
C2_Witness ==
    \E t \in Threads :
        /\ Returns(t, "remove_location")
        /\ th[t].skipped # {}
        /\ \E i \in DOMAIN blocks :
              /\ th[t].node \in DOMAIN th[t].pre[i]
              /\ th[t].node \notin DOMAIN blocks[i]
        /\ \E i \in th[t].skipped : th[t].node \in DOMAIN blocks[i]

\* C3: every block's replica mapping is non-empty
C3_ReplicaMapNonEmpty == \A b \in DOMAIN blocks : DOMAIN blocks[b] # {}

\* two remove_location calls have finished, one skipped a block and a block
\* has lost a replica
C3_Witness ==
    \E t, u \in Threads :
        /\ t # u
        /\ Finished(t, "remove_location") /\ Finished(u, "remove_location")
        /\ th[t].skipped # {}
        /\ \E b \in DOMAIN blocks : Cardinality(DOMAIN blocks[b]) = 1

\* C4: when write has returned normally, every block it touched has a
\* replica whose status is IN_SYNC
C4_WrittenBlockInSync ==
    \A t \in Threads :
        Returns(t, "write") =>
            \A b \in Touched(th[t].off, Len(th[t].data)) :
                \E n \in DOMAIN blocks[b] : blocks[b][n] = UKAI_IN_SYNC

\* a write has returned normally on a block that had an OUT_OF_SYNC and a
\* SYNCING replica before
C4_Witness ==
    \E t \in Threads :
        /\ Returns(t, "write")
        /\ \E b \in Touched(th[t].off, Len(th[t].data)) :
              \E n1, n2 \in DOMAIN th[t].pre[b] :
                  /\ th[t].pre[b][n1] = UKAI_OUT_OF_SYNC
                  /\ th[t].pre[b][n2] = UKAI_SYNCING

\* C5: when add_location(n, s, e, status) has returned, n is in every block
\* of [s, e] (e = -1: through the last block), with the given status where
\* it was absent and its old status where it was present; the other nodes'
\* entries and the blocks outside [s, e] are as they were
C5_AddLocationFrame ==
    \A t \in Threads :
        Returns(t, "add_location") =>
            LET n == th[t].node
                before == th[t].pre
            IN \A i \in DOMAIN blocks :
                  IF i \in ArgRange(t)
                  THEN /\ DOMAIN blocks[i] = DOMAIN before[i] \cup {n}
                       /\ blocks[i][n] = IF n \in DOMAIN before[i]
                                         THEN before[i][n] ELSE th[t].st
                       /\ \A m \in DOMAIN before[i] : blocks[i][m] = before[i][m]
                  ELSE blocks[i] = before[i]

\* add_location has returned on a range with a block where the node was
\* present with another status and a block where it was absent
C5_Witness ==
    \E t \in Threads :
        /\ Returns(t, "add_location")
        /\ \E i, j \in ArgRange(t) :
              /\ th[t].node \in DOMAIN th[t].pre[i]
              /\ th[t].pre[i][th[t].node] # th[t].st
              /\ th[t].node \notin DOMAIN th[t].pre[j]

\* C6: when remove_location(n, s, e) has returned, n is in no block of
\* [s, e] where another replica was IN_SYNC; n is left only in blocks that
\* met the skip condition
C6_RemoveLocationRemoves ==
    \A t \in Threads :
        Returns(t, "remove_location") =>
            \A i \in ArgRange(t) :
                /\ (\E m \in DOMAIN th[t].pre[i] \ {th[t].node} :
                       th[t].pre[i][m] = UKAI_IN_SYNC)
                   => th[t].node \notin DOMAIN blocks[i]
                /\ th[t].node \in DOMAIN blocks[i] => i \in th[t].skipped

\* remove_location over both blocks has returned and the node, present
\* before in both, is gone from the last one
C6_Witness ==
    \E t \in Threads :
        /\ Returns(t, "remove_location")
        /\ Cardinality(ArgRange(t)) > 1
        /\ \A i \in ArgRange(t) : th[t].node \in DOMAIN th[t].pre[i]
        /\ th[t].node \notin DOMAIN blocks[NBlocks - 1]

\* the non-local hypervisors of the record: the peers a flush is to reach
RemotePeers == {hv \in DOMAIN hypervisors : ~UKAIIsLocalNode(hv)}

\* C7: flush never fails on per-peer RPC failures: a flush whose record was
\* persisted returns normally, whatever RPCs failed, and has attempted the
\* broadcast on every non-local peer.
C7_FlushNeverFails ==
    \A t \in Threads :
        (Finished(t, "flush") /\ th[t].persisted) =>
            /\ th[t].exc = NoExc
            /\ th[t].attempted = RemotePeers

\* C8: when flush has returned, every non-local peer it attempted is IN_SYNC
\* if the RPC to it succeeded and OUT_OF_SYNC if the RPC failed.
C8_FailedPeerOutOfSync ==
    \A t \in Threads :
        Finished(t, "flush") =>
            \A hv \in th[t].attempted \cap DOMAIN hypervisors :
                hypervisors[hv] = IF hv \in th[t].failed
                                  THEN UKAI_OUT_OF_SYNC ELSE UKAI_IN_SYNC

\* C9: lock release on all exit paths: a call that has returned or raised
\* holds no block lock, and when no call is in progress every lock is free.
C9_LocksReleased ==
    /\ \A t \in Threads : Idle(t) => th[t].held = {}
    /\ (\A t \in Threads : Idle(t)) => \A k \in DOMAIN lock : lock[k] = FALSE

\* a flush, add_location or remove_location has raised out of flush (the
\* persistence or a broadcast RPC failed) after taking every lock
C9_Witness ==
    \E t \in Threads :
        /\ th[t].pc = "ret"
        /\ th[t].op \in {"flush", "add_location", "remove_location"}
        /\ th[t].exc \in {"PersistenceFailure", "NameError"}
        /\ th[t].held = {}
        /\ \A k \in DOMAIN lock : lock[k] = FALSE

\* C10: every thread takes block locks in ascending index order (a lock it
\* takes is above every lock it holds), and under fair scheduling every call
\* a thread has started eventually returns: no interleaving deadlocks.
C10_AscendingNoDeadlock ==
    /\ [][\A t \in Threads :
            \A k \in th'[t].held \ th[t].held :
                \A j \in th[t].held : j < k]_vars
    /\ \A t \in Threads : (~Idle(t)) ~> (th[t].pc = "ret")

\* a thread waits in acquire_lock for a lock another thread holds
C10_Witness ==
    \E t \in Threads, u \in Threads :
        /\ t # u
        /\ th[t].pc = "acquire"
        /\ th[t].k \in th[u].held
        /\ th[u].held # {0}

\* C11: acquire_lock(start_idx, end_idx) takes the locks of exactly the
\* blocks start_idx..end_idx: a caller that has returned from it and has not
\* yet called release_lock holds those locks and no lock below start_idx.
C11_LockRangeExact ==
    \A t \in Threads :
        th[t].pc = "locked" => th[t].held = th[t].s..th[t].e

\* C12: synchronize_block(i) holds the lock of block i, and only that lock,
\* from the selection of the source until the targets are copied and marked.
C12_SyncHoldsBlockLock ==
    \A t \in Threads :
        th[t].pc = "sb_node" => th[t].held = {th[t].sblk}

\* thread t is in the middle of reading or mutating the replica map or the
\* replica data of block b
InBlock(t, b) ==
    \/ th[t].pc \in {"w_node", "w_put"} /\ th[t].pieces[1][1] = b
    \/ th[t].pc \in {"sb_start", "sb_node"} /\ th[t].sblk = b
    \/ th[t].pc \in {"al_loop", "rl_loop"} /\ th[t].blk = b

\* C13: operations on one block serialize: no two threads are at once in the
\* middle of write, synchronize_block, add_location or remove_location on
\* the same block index.
C13_BlockSerialized ==
    \A t \in Threads, u \in Threads, b \in DOMAIN blocks :
        t # u => ~(InBlock(t, b) /\ InBlock(u, b))

\* block b has no replica in UKAI_IN_SYNC in the replica maps m
NoSyncedReplica(m, b) == \A n \in DOMAIN m[b] : m[b][n] # UKAI_IN_SYNC

\* C14: synchronize_block on a block that has no IN_SYNC replica aborts
\* without effect: when it is over no replica status has changed and no
\* block file has been allocated or overwritten.
C14_DiskBrokenAborts ==
    \A t \in Threads :
        (Finished(t, "synchronize_block")
            /\ NoSyncedReplica(th[t].pre, th[t].blk)) =>
                /\ blocks = th[t].pre
                /\ store = th[t].pst

\* C15: read fails with ReplicaUnavailable whenever a block of the requested
\* range has no IN_SYNC replica, and issues no I/O to an undefined node
\* (th[t].e is the size read).
C15_ReadReplicaUnavailable ==
    \A t \in Threads :
        (Finished(t, "read")
            /\ \E b \in Touched(th[t].off, th[t].e) :
                   NoSyncedReplica(th[t].pre, b)) =>
                /\ th[t].exc = "ReplicaUnavailable"
                /\ NoNode \notin th[t].asked

\* C16: write fan-out is best-effort: a write that needed no
\* synchronize_block returns len(data) whatever puts failed.
C16_WriteBestEffort ==
    \A t \in Threads :
        (Finished(t, "write") /\ th[t].syncs = 0) =>
            /\ th[t].exc = NoExc
            /\ th[t].res = <<Len(th[t].data)>>

\* ------------------------------------------------- add a replica, then write
\* One caller on an image ukai_metadata_create has just made on a local
\* node: add_location(B, 0, -1) with the default status for a remote node
\* B, then AddOps - 1 writes.
AddOps == 3
LocalLocation == CHOOSE n \in LocalAddrs : TRUE

InitAdd ==
    /\ metadata = ukai_metadata_create(NBlocks * BlockSize, BlockSize,
                                       LocalLocation, create_hypervisor)
    /\ db = metadata
    /\ lock = [i \in 0..(NBlocks - 1) |-> FALSE]
    /\ store = [n \in Nodes |-> [b \in 0..(NBlocks - 1) |->
                  IF n = LocalLocation THEN ZeroBlock ELSE NoFile]]
    /\ order \in Perms(Nodes)
    /\ th = [t \in Threads |-> IdleThread]
    /\ ops = [t \in Threads |-> IF t = 1 THEN AddOps ELSE 0]
    /\ servers = <<>>

AddStart(t) ==
    \/ /\ th[t].pc = "idle"
       /\ \E n \in Nodes \ LocalAddrs :
             StartAddLocation(t, n, 0, -1, UKAI_OUT_OF_SYNC)
    \/ /\ th[t].pc = "ret"
       /\ \E off \in 0..(NBlocks * BlockSize - 1),
             len \in 1..(NBlocks * BlockSize) : StartWrite(t, off, len)

NextAdd ==
    \E t \in Threads :
        \/ AddStart(t)
        \/ AddLocationLoop(t)
        \/ CallFlush(t)
        \/ FlushStep(t)
        \/ DataStep(t)

SpecAdd == InitAdd /\ [][NextAdd]_vars

\* C17: after add_location(B, 0, -1) on an image whose only replica is local
\* and IN_SYNC, every block lists B as OUT_OF_SYNC; when a later write has
\* returned, B is IN_SYNC in the blocks that write touched and in the blocks
\* where it was IN_SYNC before, and OUT_OF_SYNC in every other block.
C17_AddThenWriteSyncs ==
    \A t \in Threads :
        /\ Finished(t, "add_location") =>
              \A b \in DOMAIN blocks :
                  /\ th[t].node \in DOMAIN blocks[b]
                  /\ blocks[b][th[t].node] = UKAI_OUT_OF_SYNC
        /\ Returns(t, "write") =>
              \A b \in DOMAIN blocks :
                  \A n \in (DOMAIN blocks[b]) \ {LocalLocation} :
                      blocks[b][n] =
                          IF \/ b \in Touched(th[t].off, Len(th[t].data))
                             \/ th[t].pre[b][n] = UKAI_IN_SYNC
                          THEN UKAI_IN_SYNC ELSE UKAI_OUT_OF_SYNC

\* the second write after add_location has returned: B is IN_SYNC in a block
\* an earlier write synchronized and OUT_OF_SYNC in a block no write touched
C17_Witness ==
    \E t \in Threads :
        /\ Returns(t, "write")
        /\ ops[t] = 0
        /\ \E n \in Nodes \ {LocalLocation}, b \in DOMAIN blocks,
              c \in DOMAIN blocks :
              /\ n \in DOMAIN blocks[b]
              /\ th[t].pre[b][n] = UKAI_IN_SYNC
              /\ blocks[b][n] = UKAI_IN_SYNC
              /\ blocks[c][n] = UKAI_OUT_OF_SYNC
              /\ store[n][b] = store[LocalLocation][b]

\* ------------------------------------------- synchronize_block, repeated
\* One caller, SyncOps calls of synchronize_block one after the other, on a
\* loaded image whose block 0 has a replica that is not IN_SYNC.
SyncOps == 2

InitSync ==
    /\ \E m0 \in BlockMaps, m1 \in BlockMaps :
          /\ \E n \in DOMAIN m0 : m0[n] # UKAI_IN_SYNC
          /\ m1 \in {m0, create_location :> UKAI_IN_SYNC}
          /\ metadata = [size |-> NBlocks * BlockSize,
                         block_size |-> BlockSize,
                         hypervisors |-> (create_hypervisor :> UKAI_IN_SYNC),
                         blocks |-> [b \in 0..(NBlocks - 1) |->
                                       IF b = 0 THEN m0 ELSE m1]]
    /\ db = metadata
    /\ lock = [i \in 0..(NBlocks - 1) |-> FALSE]
    /\ store = [n \in Nodes |-> [b \in 0..(NBlocks - 1) |->
                  LoadedFile(metadata.blocks[b], n)]]
    /\ order \in Perms(Nodes)
    /\ th = [t \in Threads |-> IdleThread]
    /\ ops = [t \in Threads |-> IF t = 1 THEN SyncOps ELSE 0]
    /\ servers = <<>>

NextSync ==
    \E t \in Threads :
        \/ \E b \in 0..(NBlocks - 1) : StartSynchronizeBlock(t, b)
        \/ SyncSelect(t)
        \/ SyncNode(t)
        \/ FlushStep(t)

SpecSync == InitSync /\ [][NextSync]_vars

\* every replica of block b is UKAI_IN_SYNC in the replica maps m
AllSynced(m, b) == \A n \in DOMAIN m[b] : m[b][n] = UKAI_IN_SYNC

\* C18: synchronize_block(i) is idempotent: a call whose copy loop ran to
\* its end leaves every replica of block i IN_SYNC, and a call on a block
\* whose replicas are all IN_SYNC changes no status and no block file, so a
\* second call leaves what the first one left.
C18_SyncIdempotent ==
    \A t \in Threads :
        Finished(t, "synchronize_block") =>
            /\ th[t].exc \notin {"IOError", "KeyError"} =>
                  AllSynced(blocks, th[t].blk)
            /\ AllSynced(th[t].pre, th[t].blk) =>
                  /\ blocks = th[t].pre
                  /\ store = th[t].pst

\* the second of two calls on block 0, which the first call synchronized,
\* has returned
C18_Witness ==
    \E t \in Threads :
        /\ Returns(t, "synchronize_block")
        /\ ops[t] = 0
        /\ th[t].blk = 0
        /\ AllSynced(th[t].pre, 0)
        /\ Cardinality(DOMAIN blocks[0]) > 1
        /\ \E n \in DOMAIN blocks[0], m \in DOMAIN blocks[0] :
              n # m /\ store[n][0] = store[m][0]

\* ----------------------------------------------------- the record replaced
\* The records a peer's broadcast can bring: created like the image, with
\* one block less, as many, or one block more.
PeerRecords ==
    {ukai_metadata_create(n * BlockSize, BlockSize, h, create_hypervisor) :
        n \in (NBlocks - 1)..(NBlocks + 1), h \in Nodes}

\* One caller, SetOps calls, each the metadata setter or flush, on an image
\* ukai_metadata_create has just made.
SetOps == 2

InitSet ==
    /\ metadata = ukai_metadata_create(NBlocks * BlockSize, BlockSize,
                                       create_location, create_hypervisor)
    /\ db = metadata
    /\ lock = [i \in 0..(NBlocks - 1) |-> FALSE]
    /\ store = [n \in Nodes |-> [b \in 0..(NBlocks - 1) |->
                  IF n = create_location THEN ZeroBlock ELSE NoFile]]
    /\ order = SetToSeq(Nodes)
    /\ th = [t \in Threads |-> IdleThread]
    /\ ops = [t \in Threads |-> IF t = 1 THEN SetOps ELSE 0]
    /\ servers = <<>>

NextSet ==
    \E t \in Threads :
        \/ \E metadata_raw \in PeerRecords : StartSetMetadata(t, metadata_raw)
        \/ StartFlush(t)
        \/ SetAssign(t)
        \/ FlushStep(t)

SpecSet == InitSet /\ [][NextSet]_vars

\* C19: the number of per-block lock objects equals len(blocks) in every
\* state, also after the metadata setter has replaced the record.
C19_LockPerBlock ==
    Cardinality(DOMAIN lock) = Cardinality(DOMAIN blocks)

\* C20: within one flush the record is put into the persistence backend
\* before the first proxy_update_metadata RPC: a flush that is in its
\* broadcast loop, or has attempted a peer, has completed its put, and the
\* stored record is then the record in memory but for the peers' statuses.
C20_PersistBeforeBroadcast ==
    \A t \in Threads :
        (th[t].pc = "fl_bcast" \/ th[t].attempted # {}) =>
            /\ th[t].persisted
            /\ db.blocks = blocks

\* a flush has sent the record to a peer
C20_Witness ==
    \E t \in Threads :
        /\ th[t].pc = "fl_bcast"
        /\ th[t].attempted # {}
        /\ th[t].persisted
        /\ db.blocks = blocks

\* ------------------------------------------------------ ukai_metadata_create
\* no record: the persistence backend before the image is created
NoRecord == [size |-> 0, block_size |-> 0, hypervisors |-> <<>>, blocks |-> <<>>]

\* ukai_metadata_create(image_name, size, block_size, location, hypervisor,
\* config): the record is built, a UKAIMetadata is made of it (one lock per
\* block) and flushed.  size / block_size raises ZeroDivisionError for a
\* block_size of 0; with no block, acquire_lock and the release_lock of
\* flush's finally clause fail their assert end_idx >= start_idx.
CreateImage(t, sz, bs, location, hypervisor) ==
    LET r == [Begin("create") EXCEPT !.raw = <<sz, bs>>, !.node = location]
    IN
    /\ CanStart(t)
    /\ ops' = [ops EXCEPT ![t] = @ - 1]
    /\ IF bs = 0
       THEN /\ Set(t, Returned([r EXCEPT !.exc = "ZeroDivisionError"]))
            /\ UNCHANGED <<metadata, lock>>
       ELSE IF sz \div bs <= 0
       THEN /\ Set(t, Returned([r EXCEPT !.exc = "AssertionError"]))
            /\ UNCHANGED <<metadata, lock>>
       ELSE /\ metadata' = ukai_metadata_create(sz, bs, location, hypervisor)
            /\ lock' = [i \in 0..((sz \div bs) - 1) |-> FALSE]
            /\ Set(t, EnterAcquire(r, 0, (sz \div bs) - 1, <<"fl_put">>))
    /\ UNCHANGED <<db, store, order, servers>>

\* One caller, CreateOps calls of ukai_metadata_create with sizes from -1
\* to MaxSize and block sizes from 0 to BlockSize, on an empty backend.
CreateOps == 1
MaxSize == NBlocks * BlockSize

InitCreate ==
    /\ metadata = NoRecord
    /\ db = NoRecord
    /\ lock = <<>>
    /\ store = [n \in Nodes |-> [b \in 0..(NBlocks - 1) |-> NoFile]]
    /\ order = SetToSeq(Nodes)
    /\ th = [t \in Threads |-> IdleThread]
    /\ ops = [t \in Threads |-> IF t = 1 THEN CreateOps ELSE 0]
    /\ servers = <<>>

NextCreate ==
    \E t \in Threads :
        \/ \E sz \in -1..MaxSize, bs \in 0..BlockSize,
              location \in Nodes, hypervisor \in Hypervisors :
              CreateImage(t, sz, bs, location, hypervisor)
        \/ FlushStep(t)

SpecCreate == InitCreate /\ [][NextCreate]_vars

\* the geometry the specification accepts
ValidGeometry(sz, bs) == sz > 0 /\ bs > 0 /\ sz % bs = 0

\* C21: create fails with InvalidGeometry, persisting and broadcasting
\* nothing, when size <= 0, block_size <= 0 or size is not a multiple of
\* block_size; no stored record has len(blocks) # size / block_size.
C21_InvalidGeometry ==
    /\ db # NoRecord =>
          /\ ValidGeometry(db.size, db.block_size)
          /\ Cardinality(DOMAIN db.blocks) * db.block_size = db.size
    /\ \A t \in Threads :
          (Finished(t, "create")
              /\ ~ValidGeometry(th[t].raw[1], th[t].raw[2])) =>
                  /\ th[t].exc = "InvalidGeometry"
                  /\ db = NoRecord
                  /\ th[t].attempted = {}

\* ------------------------------------------------------ UKAIRPCConnection
\* the servers and ports calls are made to
RpcServers == {1, 2}
RpcPorts == {1}

\* conn_key = '%s:%d' % (server, port)
ConnKey(server, port) == <<server, port>>

\* every connection idle in some pool
Pooled == UNION {Range(servers[k]) : k \in DOMAIN servers}

\* call(server, port, method, *params), up to the test of
\* conn_key not in self._servers in _get_conn
StartCall(t, server, port) ==
    /\ CanStart(t)
    /\ Set(t, [Begin("call") EXCEPT
                  !.conn_key = ConnKey(server, port),
                  !.pc = IF ConnKey(server, port) \notin DOMAIN servers
                         THEN "rpc_init" ELSE "rpc_pop"])
    /\ ops' = [ops EXCEPT ![t] = @ - 1]
    /\ UNCHANGED <<metadata, db, lock, store, order, servers>>

\* self._servers[conn_key] = []
RpcInit(t) ==
    LET r == th[t] IN
    /\ r.pc = "rpc_init"
    /\ servers' = PutKey(servers, r.conn_key, <<>>)
    /\ Set(t, [r EXCEPT !.pc = "rpc_pop"])
    /\ UNCHANGED <<metadata, db, lock, store, order, ops>>

\* conn_pool.pop(), or a new ServerProxy when the pool is empty; the new
\* connection is named by the call that made it
RpcPop(t) ==
    LET r == th[t]
        conn_pool == servers[r.conn_key]
    IN
    /\ r.pc = "rpc_pop"
    /\ IF conn_pool # <<>>
       THEN /\ servers' = [servers EXCEPT ![r.conn_key] =
                              SubSeq(@, 1, Len(@) - 1)]
            /\ Set(t, [r EXCEPT !.pc = "rpc_call",
                                !.conn = conn_pool[Len(conn_pool)]])
       ELSE /\ servers' = servers
            /\ Set(t, [r EXCEPT !.pc = "rpc_call", !.conn = <<t, ops[t]>>])
    /\ UNCHANGED <<metadata, db, lock, store, order, ops>>

\* self._call(conn, method, *params): it returns, or raises socket.error
\* (the connection is dropped) or an xmlrpclib.Error (re-raised by _call and
\* not caught by call)
RpcCall(t) ==
    LET r == th[t] IN
    /\ r.pc = "rpc_call"
    /\ \E rpc \in {"ok", "socket.error", "xmlrpclib.Fault"} :
          Set(t, IF rpc = "ok"
                 THEN [r EXCEPT !.pc = "rpc_put", !.res = <<rpc>>]
                 ELSE Returned([r EXCEPT !.exc = rpc, !.res = <<rpc>>]))
    /\ UNCHANGED <<metadata, db, lock, store, order, ops, servers>>

\* self._servers[conn_key].append(conn)
RpcPutBackNone(conn_pool, conn) == conn_pool
RpcPutBack(conn_pool, conn) == Append(conn_pool, conn)

\* _put_conn(server, port, conn), then return ret
RpcPut(t) ==
    LET r == th[t] IN
    /\ r.pc = "rpc_put"
    /\ servers' = [servers EXCEPT ![r.conn_key] = RpcPutBack(@, r.conn)]
    /\ Set(t, Returned(r))
    /\ UNCHANGED <<metadata, db, lock, store, order, ops>>

\* One caller, RpcOps calls one after the other; and two callers at once,
\* RpcConcOps calls each, on one UKAIXMLRPCConnection with no connection yet.
RpcOps == 3
RpcConcOps == 1

InitRpc ==
    /\ metadata = NoRecord
    /\ db = NoRecord
    /\ lock = <<>>
    /\ store = [n \in Nodes |-> [b \in 0..(NBlocks - 1) |-> NoFile]]
    /\ order = SetToSeq(Nodes)
    /\ th = [t \in Threads |-> IdleThread]
    /\ ops = [t \in Threads |-> IF t = 1 THEN RpcOps ELSE 0]
    /\ servers = <<>>

InitRpcConc ==
    /\ metadata = NoRecord
    /\ db = NoRecord
    /\ lock = <<>>
    /\ store = [n \in Nodes |-> [b \in 0..(NBlocks - 1) |-> NoFile]]
    /\ order = SetToSeq(Nodes)
    /\ th = [t \in Threads |-> IdleThread]
    /\ ops = [t \in Threads |-> RpcConcOps]
    /\ servers = <<>>

NextRpc ==
    \E t \in Threads :
        \/ \E server \in RpcServers, port \in RpcPorts :
              StartCall(t, server, port)
        \/ RpcInit(t)
        \/ RpcPop(t)
        \/ RpcCall(t)
        \/ RpcPut(t)

SpecRpc == InitRpc /\ [][NextRpc]_vars

SpecRpcConc == InitRpcConc /\ [][NextRpc]_vars

\* C22: call takes an idle connection of its key from the pool, or makes one
\* when the pool is empty; a connection in use is in no pool; after a
\* successful call the connection is in the pool of its key, after a
\* socket.error it is in no pool, and the error of _call is the error the
\* caller gets.
C22_PoolContract ==
    /\ [](\A t \in Threads :
            /\ th[t].pc \in {"rpc_call", "rpc_put"} => th[t].conn \notin Pooled
            /\ Finished(t, "call") =>
                  /\ th[t].exc =
                        IF th[t].res = <<"ok">> THEN NoExc ELSE th[t].res[1]
                  /\ th[t].exc = NoExc =>
                        th[t].conn \in Range(servers[th[t].conn_key])
                  /\ th[t].exc = "socket.error" => th[t].conn \notin Pooled)
    /\ [][\A t \in Threads :
            (th[t].pc = "rpc_pop" /\ th'[t].pc = "rpc_call") =>
                IF servers[th[t].conn_key] # <<>>
                THEN /\ th'[t].conn \in Range(servers[th[t].conn_key])
                     /\ Len(servers'[th[t].conn_key])
                           = Len(servers[th[t].conn_key]) - 1
                ELSE /\ th'[t].conn \notin Pooled
                     /\ servers' = servers]_vars

\* a call has returned a connection to the pool that an earlier call made
C22_Witness ==
    \E t \in Threads :
        /\ Returns(t, "call")
        /\ th[t].conn[2] > ops[t]
        /\ th[t].conn \in Range(servers[th[t].conn_key])

\* C23: with threads calling call() at once on the shared pool, no
\* connection is in use by two calls in flight, no connection is twice in
\* a pool, and once all calls have finished a connection a successful call
\* returned is in the pool of its key unless a later call took it.
C23_PoolAtomic ==
    /\ \A t \in Threads, u \in Threads :
          (t # u /\ th[t].pc \in {"rpc_call", "rpc_put"}
                 /\ th[u].pc \in {"rpc_call", "rpc_put"}) =>
              th[t].conn # th[u].conn
    /\ \A k \in DOMAIN servers :
          Cardinality(Range(servers[k])) = Len(servers[k])
    /\ (\A t \in Threads : Idle(t)) =>
          \A t \in Threads :
              Returns(t, "call") =>
                  \/ th[t].conn \in Range(servers[th[t].conn_key])
                  \/ \E u \in Threads \ {t} : th[u].conn = th[t].conn

\* ------------------------------------------------------------ gather_pieces
\* One caller, PieceOps calls of gather_pieces, on images of 1 to PieceBlocks
\* blocks of 1 to PieceBlockSize bytes.
PieceBlocks == 4
PieceBlockSize == 3
PieceOps == 1

InitPieces ==
    /\ \E n \in 1..PieceBlocks, bs \in 1..PieceBlockSize :
          /\ metadata = ukai_metadata_create(n * bs, bs, create_location,
                                             create_hypervisor)
          /\ lock = [i \in 0..(n - 1) |-> FALSE]
          /\ store = [x \in Nodes |-> [b \in 0..(n - 1) |-> NoFile]]
    /\ db = metadata
    /\ order = SetToSeq(Nodes)
    /\ th = [t \in Threads |-> IdleThread]
    /\ ops = [t \in Threads |-> IF t = 1 THEN PieceOps ELSE 0]
    /\ servers = <<>>

NextPieces ==
    \E t \in Threads :
        \E offset \in 0..(PieceBlocks * PieceBlockSize),
           sz \in 1..(PieceBlocks * PieceBlockSize) :
            GatherPieces(t, offset, sz)

SpecPieces == InitPieces /\ [][NextPieces]_vars

\* the sum of the lengths of the first n pieces of p
RECURSIVE SumLen(_, _)
SumLen(p, n) == IF n = 0 THEN 0 ELSE SumLen(p, n - 1) + p[n][3]

\* C24: gather_pieces(offset, size) returns one piece for each block from
\* offset / block_size to (offset + size - 1) / block_size, ascending; the
\* pieces follow one another from offset with no gap or overlap and their
\* lengths sum to size; the first starts at offset mod block_size, the
\* others at 0, all but the last end at the block end; a range inside one
\* block gives the single piece (block, offset mod block_size, size).
C24_GatherPieces ==
    \A t \in Threads :
        Finished(t, "gather_pieces") =>
            LET p == th[t].res
                offset == th[t].off
                sz == th[t].e
                first == offset \div block_size
                last == (offset + sz - 1) \div block_size
            IN
            /\ Len(p) = last - first + 1
            /\ SumLen(p, Len(p)) = sz
            /\ \A i \in 1..Len(p) :
                  /\ p[i][1] = first + i - 1
                  /\ p[i][2] = IF i = 1 THEN offset % block_size ELSE 0
                  /\ p[i][3] > 0
                  /\ p[i][2] + p[i][3] <= block_size
                  /\ i < Len(p) => p[i][2] + p[i][3] = block_size
                  /\ p[i][1] * block_size + p[i][2]
                        = offset + SumLen(p, i - 1)
            /\ first = last => p = << <<first, offset % block_size, sz>> >>

\* a range that starts and ends inside blocks and has a block between them
C24_Witness ==
    \E t \in Threads :
        /\ Finished(t, "gather_pieces")
        /\ Len(th[t].res) >= 3
        /\ th[t].res[1][2] > 0
        /\ th[t].res[Len(th[t].res)][3] < block_size
        /\ th[t].res[2] = <<th[t].res[1][1] + 1, 0, block_size>>

\* the replica the selection is to return for the replica map block scanned
\* in the order keys: the first local IN_SYNC one, else the last IN_SYNC
\* one, else none
ExpectedSource(block, keys) ==
    LET S == {i \in 1..Len(keys) : block[keys[i]] = UKAI_IN_SYNC}
        L == {i \in S : keys[i] \in LocalAddrs}
    IN IF L # {} THEN keys[CHOOSE i \in L : \A j \in L : i <= j]
       ELSE IF S # {} THEN keys[CHOOSE i \in S : \A j \in S : i >= j]
       ELSE NoNode

C26_SyncBeforePut ==
    \A t \in Threads :
        (th[t].op = "write" /\ th[t].pc = "sb_start") => th[t].puts = 0

\* C27: when no call is in progress and every call returned normally (every
\* put succeeded), the replicas of a block that are IN_SYNC hold the same
\* block contents.
C27_ReplicasEqual ==
    (\A t \in Threads : Idle(t) /\ th[t].exc = NoExc) =>
        \A b \in DOMAIN blocks :
            \A n \in DOMAIN blocks[b], m \in DOMAIN blocks[b] :
                (blocks[b][n] = UKAI_IN_SYNC /\ blocks[b][m] = UKAI_IN_SYNC) =>
                    store[n][b] = store[m][b]

\* C28: when a flush that persisted the record has returned normally (one
\* caller, nobody else mutating the record), the record in the persistence
\* backend equals the in-memory record, hypervisor sync statuses included.
C28_PersistedEqualsMemory ==
    \A t \in Threads :
        (th[t].pc = "ret" /\ th[t].persisted /\ th[t].exc = NoExc) =>
            db = metadata

\* C29: when an assignment to the metadata property of a loaded instance
\* has returned, it returned normally, the caller holds no block lock and
\* every block lock is released.
C29_SetterReleasesAll ==
    \A t \in Threads :
        Finished(t, "metadata") =>
            /\ th[t].exc = NoExc
            /\ th[t].held = {}
            /\ \A i \in DOMAIN lock : ~lock[i]
====
